---- MODULE Spec2Model ----
(***************************************************************************)
(* Model of PiramieExcelMaker_append.py: the deduplicated append of a      *)
(* monthly purchases report into the 'APR Bundle' sheet of the MASTER      *)
(* workbook (ingest_month_into_apr_bundle and its helpers).                *)
(*                                                                         *)
(* Text is modelled by TLA+ strings handled character by character, so     *)
(* that stripping, whitespace collapsing, case folding and number parsing  *)
(* are computed and not assumed.  A cell value is a record                 *)
(*     [t, s, n, us]  with t in {"none", "str", "num", "dt"}               *)
(* (empty cell / NaN / NaT, text s, number n, timestamp of n whole seconds *)
(* and us microseconds).  Cell number formats and styles are not modelled. *)
(***************************************************************************)
EXTENDS Integers, Sequences, FiniteSets, TLC

(***************************************************************************)
(* Character-level string functions (Python str methods and re.sub).       *)
(***************************************************************************)
UPPER == "ABCDEFGHIJKLMNOPQRSTUVWXYZ"
LOWER == "abcdefghijklmnopqrstuvwxyz"
DIGITS == "0123456789"

IndexIn(c, alphabet) ==
  LET hits == {k \in 1..Len(alphabet) : SubSeq(alphabet, k, k) = c}
  IN  IF hits = {} THEN 0 ELSE CHOOSE k \in hits : TRUE

UpperChars == {SubSeq(UPPER, k, k) : k \in 1..Len(UPPER)}
LowerChars == {SubSeq(LOWER, k, k) : k \in 1..Len(LOWER)}
DigitChars == {SubSeq(DIGITS, k, k) : k \in 1..Len(DIGITS)}
LowerOf == [c \in UpperChars |-> SubSeq(LOWER, IndexIn(c, UPPER), IndexIn(c, UPPER))]
DigitOf == [c \in DigitChars |-> IndexIn(c, DIGITS) - 1]

IsSpace(c) == c \in {" ", "\t"}

RECURSIVE lstrip(_)
lstrip(s) == IF s # "" /\ IsSpace(Head(s)) THEN lstrip(Tail(s)) ELSE s

RECURSIVE rstrip(_)
rstrip(s) ==
  IF s # "" /\ IsSpace(SubSeq(s, Len(s), Len(s)))
  THEN rstrip(SubSeq(s, 1, Len(s) - 1)) ELSE s

\* str.strip()
strip(s) == rstrip(lstrip(s))

\* re.sub(r"\s+", " ", s)
RECURSIVE CollapseSpaces(_)
CollapseSpaces(s) ==
  IF s = "" THEN ""
  ELSE IF IsSpace(Head(s)) THEN " " \o CollapseSpaces(lstrip(Tail(s)))
  ELSE Head(s) \o CollapseSpaces(Tail(s))

\* str.lower()
RECURSIVE lower(_)
lower(s) ==
  IF s = "" THEN ""
  ELSE (IF Head(s) \in UpperChars THEN LowerOf[Head(s)] ELSE Head(s)) \o lower(Tail(s))

\* s.replace(",", "").replace("$", "")  /  re.sub(r"[,$]", "", s)
RECURSIVE RemoveMoneyChars(_)
RemoveMoneyChars(s) ==
  IF s = "" THEN ""
  ELSE (IF Head(s) \in {",", "$"} THEN "" ELSE Head(s)) \o RemoveMoneyChars(Tail(s))

RECURSIVE AllDigits(_)
AllDigits(s) == s = "" \/ (Head(s) \in DigitChars /\ AllDigits(Tail(s)))

RECURSIVE DigitsValue(_)
DigitsValue(s) ==
  IF s = "" THEN 0
  ELSE 10 * DigitsValue(SubSeq(s, 1, Len(s) - 1))
       + DigitOf[SubSeq(s, Len(s), Len(s))]

\* str(n) of a non-negative whole number
RECURSIVE IntToStr(_)
IntToStr(n) ==
  IF n < 10 THEN SubSeq(DIGITS, n + 1, n + 1)
  ELSE IntToStr(n \div 10) \o SubSeq(DIGITS, (n % 10) + 1, (n % 10) + 1)

(***************************************************************************)
(* Cell values.                                                            *)
(***************************************************************************)
None == [t |-> "none", s |-> "", n |-> 0, us |-> 0]
Str(s) == [t |-> "str", s |-> s, n |-> 0, us |-> 0]
Num(n) == [t |-> "num", s |-> "", n |-> n, us |-> 0]
Dt(sec, us) == [t |-> "dt", s |-> "", n |-> sec, us |-> us]

\* pd.isna(v): None, NaN and NaT are one empty value here
isna(v) == v.t = "none"

\* float(text): the texts of the model are whole numbers or not numbers at
\* all; a text parses iff, stripped, it is a non-empty run of digits.
FloatParses(s) == strip(s) # "" /\ AllDigits(strip(s))
float(s) == Num(DigitsValue(strip(s)))

\* The date texts of the model and the timestamps pandas parses them to;
\* any other text is not a date.
DateTexts == {"2024-01-05", "2024-01-06 10:00:00.25"}
DateOfText(s) ==
  CASE s = "2024-01-05" -> Dt(5, 0)
    [] s = "2024-01-06 10:00:00.25" -> Dt(6, 250000)

\* pd.to_datetime(v, errors="coerce") on one value
to_datetime(v) ==
  CASE v.t = "dt" -> v
    [] v.t = "str" -> IF strip(v.s) \in DateTexts THEN DateOfText(strip(v.s)) ELSE None
    [] OTHER -> None

\* dt.to_pydatetime().replace(microsecond=0)
TruncSeconds(v) == Dt(v.n, 0)

\* str(v) / Series.astype(str) of one value that is not a timestamp
str(v) ==
  CASE v.t = "str" -> v.s
    [] v.t = "num" -> IntToStr(v.n)
    [] v.t = "none" -> "nan"

(***************************************************************************)
(* Program constants.                                                      *)
(***************************************************************************)
APR_SHEET == "APR Bundle"

DEDUPE_FIELDS ==
  <<"MSISDN", "Purchase Date", "PRODUCT_NAME", "PURCHASE_AMT", "CONTRACT_ID", "PRODUCT_ID">>

\* Monthly label -> ordered APR target spellings, in the dict's order
COLUMN_MAP ==
  << [label |-> "Cust Name",       targets |-> <<"CUSTOMER_NAME">>],
     [label |-> "Cust Type",       targets |-> <<"CUSTOMER_TYPE">>],
     [label |-> "MSISDN",          targets |-> <<"MSISDN">>],
     [label |-> "Purchase Date",   targets |-> <<"Purchase Date">>],
     [label |-> "Prod Name",       targets |-> <<"PRODUCT_NAME">>],
     [label |-> "Amount",          targets |-> <<"PURCHASE_AMT">>],
     [label |-> "Package Status",  targets |-> <<"STAT">>],
     [label |-> "API Credit Type", targets |-> <<"API Credit Type", "API  Credit Type">>],
     [label |-> "Prod Code",       targets |-> <<"PRODUCT_ID">>],
     [label |-> "CRTR_ID",         targets |-> <<"CONTRACT_ID">>] >>

MonthlyLabels == {COLUMN_MAP[k].label : k \in 1..Len(COLUMN_MAP)}
\* COLUMN_MAP[label]
TargetList(label) ==
  COLUMN_MAP[CHOOSE k \in 1..Len(COLUMN_MAP) : COLUMN_MAP[k].label = label].targets

\* Excel row 4 of the monthly report holds its headers (header=3)
MONTH_HEADER_ROW == 3

\* aliases of _normalize_columns: normalised monthly header -> canonical label
aliases ==
  << <<"cust name", "Cust Name">>, <<"customer name", "Cust Name">>,
     <<"cust type", "Cust Type">>, <<"customer type", "Cust Type">>,
     <<"msisdn", "MSISDN">>,
     <<"purchase date", "Purchase Date">>, <<"date", "Purchase Date">>,
     <<"prod name", "Prod Name">>, <<"product name", "Prod Name">>,
     <<"amount", "Amount">>, <<"purchase amount", "Amount">>, <<"purchase amt", "Amount">>,
     <<"package status", "Package Status">>, <<"stat", "Package Status">>,
     <<"api credit type", "API Credit Type">>,
     <<"prod code", "Prod Code">>, <<"product id", "Prod Code">>,
     <<"crtr_id", "CRTR_ID">>, <<"crtr id", "CRTR_ID">>, <<"contract id", "CRTR_ID">> >>

(***************************************************************************)
(* Worksheets.  A sheet is [cells, auto_filter, tables]: cells[r][c] is    *)
(* the value of row r, column c (row 1 is the header row), auto_filter is  *)
(* the filter's ref ("" when the sheet has none) and tables the refs of    *)
(* its structured tables, all as A1-style range strings.                   *)
(***************************************************************************)
max_row(ws) == Len(ws.cells)
max_column(ws) == Len(ws.cells[1])
Cell(ws, r, c) ==
  IF r <= Len(ws.cells) /\ c <= Len(ws.cells[r]) THEN ws.cells[r][c] ELSE None

SetMax(S) == CHOOSE m \in S : \A k \in S : k <= m
SetMin(S) == CHOOSE m \in S : \A k \in S : m <= k

\* faulty variant: whitespace runs are not collapsed
_norm_NoCollapse(s) == lower(strip(s))

\* _norm: collapse whitespace runs, strip, lowercase
_norm(s) == lower(strip(CollapseSpaces(s)))

HeaderCols(ws) == {c \in 1..max_column(ws) : ~isna(ws.cells[1][c])}

NoMap == [l \in {} |-> 0]

\* _build_apr_header_index: normalised header -> column, the loop over the
\* cells of row 1 up to column n; a later column with the same normalised
\* header overwrites an earlier one
RECURSIVE HeaderIndexUpTo(_, _)
HeaderIndexUpTo(ws, n) ==
  IF n = 0 THEN NoMap
  ELSE LET header_map == HeaderIndexUpTo(ws, n - 1)
       IN  IF isna(ws.cells[1][n]) THEN header_map
           ELSE (_norm(str(ws.cells[1][n])) :> n) @@ header_map

_build_apr_header_index(ws) == HeaderIndexUpTo(ws, max_column(ws))

\* _resolve_target_col: column of the first candidate present, 0 for None
RECURSIVE ResolveFrom(_, _, _)
ResolveFrom(apr_header_map, candidates, k) ==
  IF k > Len(candidates) THEN 0
  ELSE IF _norm(candidates[k]) \in DOMAIN apr_header_map
       THEN apr_header_map[_norm(candidates[k])]
       ELSE ResolveFrom(apr_header_map, candidates, k + 1)

\* faulty variant: the last spelling present wins
_resolve_target_col_LastSpelling(apr_header_map, candidates) ==
  ResolveFrom(apr_header_map,
              [k \in 1..Len(candidates) |-> candidates[Len(candidates) + 1 - k]], 1)

_resolve_target_col(apr_header_map, candidates) == ResolveFrom(apr_header_map, candidates, 1)

\* _find_header_col: first column whose header normalises to the text, 0 for None
RECURSIVE FindHeaderFrom(_, _, _)
FindHeaderFrom(ws, target, c) ==
  IF c > max_column(ws) THEN 0
  ELSE IF ~isna(ws.cells[1][c]) /\ _norm(str(ws.cells[1][c])) = target THEN c
       ELSE FindHeaderFrom(ws, target, c + 1)

_find_header_col(ws, header_text) == FindHeaderFrom(ws, _norm(header_text), 1)

\* _last_used_row(ws, from_row=2): <<last row with a value in columns
\* 1..to_col, to_col>>, to_col the last column with a header
_last_used_row(ws) ==
  LET to_col == IF HeaderCols(ws) = {} THEN max_column(ws) ELSE SetMax(HeaderCols(ws))
      used == {r \in 2..max_row(ws) : \E c \in 1..to_col : ~isna(Cell(ws, r, c))}
  IN  <<IF used = {} THEN 1 ELSE SetMax(used), to_col>>

\* openpyxl.utils.get_column_letter
RECURSIVE get_column_letter(_)
get_column_letter(n) ==
  IF n <= 26 THEN SubSeq(UPPER, n, n)
  ELSE get_column_letter((n - 1) \div 26) \o SubSeq(UPPER, ((n - 1) % 26) + 1, ((n - 1) % 26) + 1)

(***************************************************************************)
(* The monthly report.  A file is [kind, cells]: kind "missing" (no such   *)
(* file), "corrupt" (not readable as a workbook) or "xlsx"; cells are the  *)
(* physical rows of its first sheet.  A DataFrame is [columns, rows]:      *)
(* the column labels in order and one function label -> value per row.     *)
(***************************************************************************)
SeqToSet(q) == {q[k] : k \in 1..Len(q)}

\* pd.read_excel(month_path, sheet_name=0, header=3): the row after the
\* MONTH_HEADER_ROW leading rows names the columns, the rows below are data
read_excel(file) ==
  LET head == file.cells[MONTH_HEADER_ROW + 1]
      At(row, c) == IF c <= Len(row) THEN row[c] ELSE None
  IN  [columns |-> [c \in 1..Len(head) |-> str(head[c])],
       data |-> [k \in 1..(Len(file.cells) - MONTH_HEADER_ROW - 1) |->
                  [c \in 1..Len(head) |-> At(file.cells[MONTH_HEADER_ROW + 1 + k], c)]]]

Readable(file) == file.kind = "xlsx" /\ Len(file.cells) > MONTH_HEADER_ROW

\* aliases[nc] when nc is an alias, else the header as it is (pass-through)
Canonical(c) ==
  LET hits == {k \in 1..Len(aliases) : aliases[k][1] = _norm(c)}
  IN  IF hits = {} THEN c ELSE aliases[CHOOSE k \in hits : TRUE][2]

\* _normalize_columns: rename to canonical monthly labels, then drop the
\* columns that are empty in every row (all of them when there is no row)
_normalize_columns(raw) ==
  LET renamed == [c \in 1..Len(raw.columns) |-> Canonical(raw.columns[c])]
      empty_cols == {c \in 1..Len(renamed) : \A k \in 1..Len(raw.data) : isna(raw.data[k][c])}
      kept == {c \in 1..Len(renamed) : c \notin empty_cols}
      labels == {renamed[c] : c \in kept}
      Pos(lab) == SetMin({c \in kept : renamed[c] = lab})
  IN  [columns |-> labels,
       rows |-> [k \in 1..Len(raw.data) |-> [lab \in labels |-> raw.data[k][Pos(lab)]]]]

\* df["MSISDN"].astype(str).str.strip(), 'nan' / 'none' / '' back to NA
MsisdnText(v) ==
  LET t == strip(str(v))
  IN  IF lower(t) \in {"nan", "none", ""} THEN None ELSE Str(t)

\* pd.to_numeric(df["Amount"].astype(str) without ',' and '$', stripped, errors="coerce")
AmountNumber(v) ==
  LET t == strip(RemoveMoneyChars(str(v)))
  IN  IF FloatParses(t) THEN float(t) ELSE None

\* _coerce_and_derive: the APR-style columns the dedupe key reads
_coerce_and_derive(df) ==
  LET cols == df.columns \cup SeqToSet(DEDUPE_FIELDS)
      Has(lab) == lab \in df.columns
      Derived(row, lab) ==
        CASE lab = "Purchase Date" -> IF Has(lab) THEN to_datetime(row[lab]) ELSE None
          [] lab = "MSISDN" -> IF Has(lab) THEN MsisdnText(row[lab]) ELSE None
          [] lab = "PURCHASE_AMT" -> IF Has("Amount") THEN AmountNumber(row["Amount"]) ELSE None
          [] lab = "PRODUCT_NAME" -> IF Has("Prod Name") THEN row["Prod Name"] ELSE None
          [] lab = "PRODUCT_ID" -> IF Has("Prod Code") THEN row["Prod Code"] ELSE None
          [] lab = "CONTRACT_ID" -> IF Has("CRTR_ID") THEN row["CRTR_ID"] ELSE None
          [] OTHER -> row[lab]
  IN  [columns |-> cols,
       rows |-> [k \in 1..Len(df.rows) |-> [lab \in cols |-> Derived(df.rows[k], lab)]]]

\* _read_month_file, for a file that can be read
_read_month_file(file) == _coerce_and_derive(_normalize_columns(read_excel(file)))

(***************************************************************************)
(* Identity keys.                                                          *)
(***************************************************************************)
\* One element of a ledger key (the loop body of _read_existing_keys):
\* dates to the second, amounts to a number when the text parses and the
\* raw cell value when it does not, texts stripped
LedgerKeyPart(f, v) ==
  CASE v = None -> None
    [] f = "Purchase Date" ->
         IF isna(to_datetime(v)) THEN None ELSE TruncSeconds(to_datetime(v))
    [] f = "PURCHASE_AMT" ->
         IF FloatParses(strip(RemoveMoneyChars(str(v))))
         THEN float(strip(RemoveMoneyChars(str(v)))) ELSE v
    [] OTHER -> IF v.t = "str" THEN Str(strip(v.s)) ELSE v

\* the DEDUPE_FIELDS from the k-th on that have a column on the APR sheet,
\* each with its column
RECURSIVE PresentFrom(_, _)
PresentFrom(ws, k) ==
  IF k > Len(DEDUPE_FIELDS) THEN <<>>
  ELSE LET col == _find_header_col(ws, DEDUPE_FIELDS[k])
       IN  (IF col # 0 THEN <<[f |-> DEDUPE_FIELDS[k], col |-> col]>> ELSE <<>>)
           \o PresentFrom(ws, k + 1)

PresentFields(ws) == PresentFrom(ws, 1)

\* the key _read_existing_keys builds for row r
LedgerRowKey(ws, present, r) ==
  [j \in 1..Len(present) |-> LedgerKeyPart(present[j].f, Cell(ws, r, present[j].col))]

\* _read_existing_keys: the keys of rows 2..last used row, over the dedupe
\* fields present in the header; no key at all when none is present
_read_existing_keys(ws) ==
  LET present == PresentFields(ws)
  IN  IF Len(present) = 0 THEN {}
      ELSE {LedgerRowKey(ws, present, r) : r \in 2.._last_used_row(ws)[1]}

\* One element of a monthly key (the loop body of _make_row_key)
MonthKeyPart(f, series) ==
  IF f \notin DOMAIN series \/ isna(series[f]) THEN None
  ELSE CASE f = "Purchase Date" ->
              IF isna(to_datetime(series[f])) THEN None
              ELSE TruncSeconds(to_datetime(series[f]))
         [] f = "PURCHASE_AMT" ->
              IF FloatParses(strip(RemoveMoneyChars(str(series[f]))))
              THEN float(strip(RemoveMoneyChars(str(series[f])))) ELSE series[f]
         [] OTHER -> IF series[f].t = "str" THEN Str(strip(series[f].s)) ELSE series[f]

\* _make_row_key: the key of a monthly row, over all DEDUPE_FIELDS
_make_row_key(series) ==
  [j \in 1..Len(DEDUPE_FIELDS) |-> MonthKeyPart(DEDUPE_FIELDS[j], series)]

(***************************************************************************)
(* Range maintenance and date normalisation.                               *)
(***************************************************************************)
\* ref.split(":")
RECURSIVE SplitColon(_)
SplitColon(s) ==
  IF s = "" THEN <<"">>
  ELSE LET rest == SplitColon(Tail(s))
       IN  IF Head(s) = ":" THEN <<"">> \o rest
           ELSE <<Head(s) \o rest[1]>> \o Tail(rest)

\* "".join(filter(str.isdigit, s)) and "".join(filter(str.isalpha, s))
RECURSIVE DigitsOf(_)
DigitsOf(s) ==
  IF s = "" THEN ""
  ELSE (IF Head(s) \in DigitChars THEN Head(s) ELSE "") \o DigitsOf(Tail(s))

RECURSIVE AlphaOf(_)
AlphaOf(s) ==
  IF s = "" THEN ""
  ELSE (IF Head(s) \in UpperChars \cup LowerChars THEN Head(s) ELSE "") \o AlphaOf(Tail(s))

\* faulty variant: the table is not extended
ExpandTableRef_Stale(ref, last_row) == ref

\* The new ref of one table: a table starting on row 1 keeps its columns and
\* ends on last_row; a ref that does not split in two, or whose start has no
\* digits, raises inside the try and is left as it is
ExpandTableRef(ref, last_row) ==
  LET parts == SplitColon(ref)
  IN  IF Len(parts) # 2 \/ DigitsOf(parts[1]) = "" THEN ref
      ELSE IF DigitsValue(DigitsOf(parts[1])) = 1
           THEN AlphaOf(parts[1]) \o "1:" \o AlphaOf(parts[2]) \o IntToStr(last_row)
           ELSE ref

\* _expand_filters_and_tables
_expand_filters_and_tables(ws) ==
  LET last_row == _last_used_row(ws)[1]
      last_col == _last_used_row(ws)[2]
      end_col_letter == get_column_letter(last_col)
  IN  [ws EXCEPT
        !.auto_filter = IF ws.auto_filter # ""
                        THEN "A1:" \o end_col_letter \o IntToStr(last_row)
                        ELSE ws.auto_filter,
        !.tables = [k \in 1..Len(ws.tables) |-> ExpandTableRef(ws.tables[k], last_row)]]

\* faulty variant: errors="coerce", a text that is no date is blanked
NormalizedDate_Coerce(v) ==
  IF v = None \/ v.t = "dt" THEN v ELSE to_datetime(Str(str(v)))

\* What _normalize_purchase_date_column leaves in a cell holding v: an empty
\* cell and a datetime stay, a value whose text parses becomes the parsed
\* datetime (sub-second part kept), any other value stays
NormalizedDate(v) ==
  IF v = None \/ v.t = "dt" THEN v
  ELSE IF isna(to_datetime(Str(str(v)))) THEN v ELSE to_datetime(Str(str(v)))

\* faulty variant: the date column is not re-scanned
_normalize_purchase_date_column_Skipped(ws) == ws

\* _normalize_purchase_date_column
_normalize_purchase_date_column(ws) ==
  LET col == _find_header_col(ws, "Purchase Date")
      last_row == _last_used_row(ws)[1]
  IN  IF col = 0 THEN ws
      ELSE [ws EXCEPT !.cells =
             [r \in 1..Len(ws.cells) |->
               [c \in 1..Len(ws.cells[r]) |->
                 IF r >= 2 /\ r <= last_row /\ c = col
                 THEN NormalizedDate(ws.cells[r][c]) ELSE ws.cells[r][c]]]]

(***************************************************************************)
(* The write loop's cell values.                                           *)
(***************************************************************************)
\* _coerce_for_excel
_coerce_for_excel(val) ==
  IF isna(val) THEN None
  ELSE IF val.t = "str" THEN Str(strip(val.s)) ELSE val

\* The value the write loop stores for monthly column m_col
CellValue(m_col, raw) ==
  LET v1 == _coerce_for_excel(raw)
      v2 == IF m_col = "Amount" /\ v1.t = "str"
            THEN (IF FloatParses(strip(RemoveMoneyChars(v1.s)))
                  THEN float(strip(RemoveMoneyChars(v1.s)))
                  ELSE Str(strip(RemoveMoneyChars(v1.s))))
            ELSE v1
  IN  IF m_col = "Purchase Date"
      THEN (IF isna(to_datetime(v2)) THEN None ELSE TruncSeconds(to_datetime(v2)))
      ELSE v2

\* ws.cell(row=target_row, column=col_idx, value=val) for every resolved
\* column: colvals maps the columns written to their values
WriteCells(ws, target_row, colvals) ==
  LET nrows == IF target_row > Len(ws.cells) THEN target_row ELSE Len(ws.cells)
      width == SetMax({max_column(ws)} \cup DOMAIN colvals)
  IN  [ws EXCEPT !.cells =
        [r \in 1..nrows |->
          [c \in 1..width |->
            IF r = target_row /\ c \in DOMAIN colvals THEN colvals[c] ELSE Cell(ws, r, c)]]]

(***************************************************************************)
(* Inputs: the MASTER workbooks and monthly reports the runs start from.   *)
(***************************************************************************)
MaxBatch == 3        \* most data rows of a monthly report of the main family
MaxLedgerRows == 2   \* most data rows of a ledger of the main family

SeqsUpTo(S, n) == UNION {[1..k -> S] : k \in 0..n}

\* --- ledgers -------------------------------------------------------------
Sheet(header, rows, filter, tbls) ==
  [cells |-> <<header>> \o rows, auto_filter |-> filter, tables |-> tbls]

OtherSheet == Sheet(<<Str("Summary")>>, <<>>, "", <<>>)

Master(apr) ==
  [kind |-> "xlsm",
   sheets |-> [n \in {APR_SHEET, "Summary"} |-> IF n = APR_SHEET THEN apr ELSE OtherSheet]]
MasterMissing == [kind |-> "missing", sheets |-> [n \in {} |-> OtherSheet]]
MasterNoSheet == [kind |-> "xlsm", sheets |-> [n \in {"Summary"} |-> OtherSheet]]

\* every mapped target, in spellings that differ in case and spacing
HeaderFull ==
  <<Str("CUSTOMER_NAME"), Str("CUSTOMER_TYPE"), Str("MSISDN"), Str("Purchase  Date"),
    Str("PRODUCT_NAME"), Str("purchase_amt "), Str("STAT"), Str("API  Credit Type"),
    Str("PRODUCT_ID"), Str("CONTRACT_ID")>>
\* a ledger without PURCHASE_AMT, CONTRACT_ID and PRODUCT_ID
HeaderPartial == <<Str("MSISDN"), Str("Purchase Date"), Str("PRODUCT_NAME"), Str("CUSTOMER_NAME")>>
\* two MSISDN columns and a column without header
HeaderDup ==
  <<Str("MSISDN"), None, Str("Purchase Date"), Str("PRODUCT_NAME"), Str("PURCHASE_AMT"),
    Str("CONTRACT_ID"), Str("PRODUCT_ID"), Str(" msisdn ")>>
\* mapped columns, none of them a dedupe field
HeaderNoDedupe == <<Str("CUSTOMER_NAME"), Str("STAT")>>
\* no mapped column at all
HeaderOther == <<Str("Region"), Str("Total")>>

\* a row as the ingestion writes it, a row typed by hand (number as MSISDN,
\* date and amount as text) and a blank row
LedgerAnn ==
  <<Str("Ann"), None, Str("701"), Dt(5, 0), Str("Bundle A"), Num(1200), None, None, None, None>>
LedgerBob ==
  <<Str("Bob"), None, Num(702), Str("2024-01-06 10:00:00.25"), Str(" Bundle B"),
    Str("$1,500"), None, None, None, None>>
LedgerBlank == <<None, None, None, None, None, None, None, None, None, None>>
\* a row whose date text is no date
LedgerOld ==
  <<Str("Old"), None, Str("700"), Str("tbc"), Str("Bundle A"), Num(900), None, None, None, None>>

FullSheet(rows) ==
  Sheet(HeaderFull, rows, "A1:J" \o IntToStr(Len(rows) + 1),
        <<"A1:J" \o IntToStr(Len(rows) + 1)>>)

MainLedgers == {Master(FullSheet(rows)) : rows \in SeqsUpTo({LedgerAnn, LedgerBob}, MaxLedgerRows)}

SpecialLedgers ==
  {Master(FullSheet(<<LedgerAnn, LedgerBlank, LedgerBob>>)),
   Master(FullSheet(<<LedgerBlank, LedgerBlank>>)),
   Master(FullSheet(<<LedgerOld, LedgerBob>>))}

OtherLedgers ==
  {Master(Sheet(HeaderPartial, <<>>, "", <<"B3:C4">>)),
   Master(Sheet(HeaderPartial,
                << <<Str("701"), Str("2024-01-05"), Str("Bundle A"), Str("Ann")>> >>,
                "B1:C2", <<"A1:D2", "A1", "B1:C2">>)),
   Master(Sheet(HeaderDup, <<>>, "A1:H1", <<>>)),
   Master(Sheet(HeaderDup,
                << <<Str("701"), None, Dt(5, 0), Str("Bundle A"), Num(1200), None, None, None>> >>,
                "A1:H2", <<"A1:H2">>)),
   Master(Sheet(HeaderNoDedupe, << <<Str("Ann"), Str("OK")>> >>, "", <<>>)),
   Master(Sheet(HeaderOther, << <<Str("North"), Num(3)>> >>, "A1:B2", <<>>))}

\* --- monthly reports -----------------------------------------------------
Lead == << <<Str("Purchases report")>>, <<>>, <<>> >>   \* the MONTH_HEADER_ROW rows above the headers
MonthFile(headers, rows) == [kind |-> "xlsx", cells |-> Lead \o <<headers>> \o rows]
MonthMissing == [kind |-> "missing", cells |-> <<>>]
MonthCorrupt == [kind |-> "corrupt", cells |-> <<>>]

MonthHeaders ==
  <<Str("Customer Name"), Str("MSISDN"), Str("Date"), Str("Prod  Name"), Str(" amount"), Str("Notes")>>
MonthAnn == <<Str(" Ann "), Num(701), Str("2024-01-05"), Str("Bundle A"), Str("$1,200"), None>>
MonthBob == <<Str("Bob"), Str("702"), Dt(6, 250000), Str("Bundle B "), Num(1500), Str("late")>>
\* neither the date nor the amount parses
MonthCy == <<Str("Cy"), Num(703), Str("soon"), Str("Bundle C"), Str("free"), None>>
\* no dedupe field at all
MonthEve == <<Str("Eve"), None, None, None, None, None>>
MonthEmpty == <<None, None, None, None, None, None>>
\* the only value is text made of spaces
MonthGap == <<Str("  "), None, None, None, None, None>>

MainMonths ==
  {MonthFile(MonthHeaders, rows) : rows \in SeqsUpTo({MonthAnn, MonthBob, MonthCy}, MaxBatch)}

\* rows without any dedupe field and rows without any value
EmptyRowMonths ==
  {MonthFile(MonthHeaders, rows) :
     rows \in {<<MonthEmpty>>, <<MonthEve, MonthEmpty, MonthEve>>,
               <<MonthEmpty, MonthAnn, MonthEmpty>>, <<MonthAnn, MonthEve, MonthBob, MonthEve>>,
               <<MonthGap, MonthAnn>>}}

\* all ten mapped fields
MonthHeadersAll ==
  <<Str("Cust Name"), Str("customer type"), Str("msisdn"), Str("Purchase Date"),
    Str("Product Name"), Str("Purchase Amt"), Str("STAT"), Str("API  Credit Type"),
    Str("Product ID"), Str("Contract ID")>>
MonthDan ==
  <<Str("Dan"), Str("VIP"), Str("704"), Dt(5, 0), Str("Bundle D"), Str("1,000"), Str("OK"),
    Str("prepaid"), Num(11), Str("c-1")>>
MonthDot ==
  <<Str("Dot"), None, Str("705"), Str("2024-01-05"), Str("Bundle D"), Num(1000), Str("OK"),
    None, Num(12), Str("c-2")>>

OtherMonths ==
  {MonthFile(MonthHeadersAll, <<MonthDan, MonthDot, MonthDan>>),
   MonthFile(MonthHeadersAll, <<MonthDot>>),
   MonthFile(MonthHeaders, <<MonthAnn, MonthBob>>),
   MonthFile(<<Str("Region"), Str("Total")>>, << <<Str("North"), Num(3)>> >>)}

\* three ledger rows and a batch of five: a ledger duplicate, a key that
\* comes twice and two more new keys
EndToEnd ==
  <<Master(FullSheet(<<LedgerOld, LedgerAnn, LedgerBob>>)),
    MonthFile(MonthHeaders, <<MonthAnn, MonthBob, MonthCy, MonthBob, MonthEve>>)>>

\* the pairs (MASTER, monthly report) an ingestion starts from
Scenarios ==
  (MainLedgers \X MainMonths)
    \cup {EndToEnd}
    \cup ((SpecialLedgers \cup MainLedgers) \X EmptyRowMonths)
    \cup ((OtherLedgers \cup SpecialLedgers \cup MainLedgers) \X OtherMonths)
    \cup ({MasterMissing, MasterNoSheet} \X OtherMonths)
    \cup ((OtherLedgers \cup {MasterMissing, MasterNoSheet}) \X {MonthMissing, MonthCorrupt})

(***************************************************************************)
(* The ingestion as a state machine: one action per step of                *)
(* ingest_month_into_apr_bundle, in program order.                         *)
(***************************************************************************)
VARIABLES
  master,            \* the MASTER file on disk
  month,             \* the monthly report on disk
  backups,           \* the copies in _backups/, oldest first
  pc,                \* position of the run
  error,             \* the exception raised, "" when none
  month_df,          \* the monthly DataFrame
  wb,                \* the loaded workbook: sheet name -> sheet
  existing_keys,
  last_used_before,
  resolved_map,      \* monthly label -> APR column
  skipped_targets,   \* monthly label -> targets, none of them on the sheet
  missing_monthly,   \* labels absent from the monthly report
  backup_path,       \* position in backups of this run's copy, 0 before it
  i,                 \* monthly rows processed by the write loop
  written,
  duplicates_skipped,
  result,            \* the dict returned
  rerun,             \* TRUE in the second ingestion of the same report
  first,             \* the result of the first ingestion, in the second
  master0,           \* history: the MASTER file when the run began
  placed,            \* history: <<monthly row, sheet row>> of each row counted as written
  touched,           \* history: the <<row, column>> cells the write loop assigned
  skipped,           \* history: the monthly rows counted as duplicates
  master_path,       \* GUI: the MASTER path selected, "" when none
  month_report_path, \* GUI: the MONTH path selected, "" when none
  button,            \* GUI: the button pressed, "" before
  calls,             \* GUI: the calls the button's handler made, in order
  log,               \* GUI: the lines of the log box
  dialog             \* GUI: the last message box shown, "" when none

vars ==
  <<master, month, backups, pc, error, month_df, wb, existing_keys, last_used_before,
    resolved_map, skipped_targets, missing_monthly, backup_path, i, written,
    duplicates_skipped, result, rerun, first, master0, placed, touched, skipped,
    master_path, month_report_path, button, calls, log, dialog>>

files == <<master, month, backups>>
locals ==
  <<month_df, wb, existing_keys, last_used_before, resolved_map, skipped_targets,
    missing_monthly, backup_path, i, written, duplicates_skipped>>
history == <<rerun, first, master0, placed, touched, skipped>>
gui == <<master_path, month_report_path, button, calls, log, dialog>>

NoFrame == [columns |-> {}, rows |-> <<>>]
NoWorkbook == [n \in {} |-> OtherSheet]
NoResult == [k \in {} |-> 0]

Fresh ==
  /\ pc = "idle" /\ error = ""
  /\ month_df = NoFrame /\ wb = NoWorkbook
  /\ existing_keys = {} /\ last_used_before = 0
  /\ resolved_map = NoMap /\ skipped_targets = NoMap /\ missing_monthly = <<>>
  /\ backup_path = 0 /\ i = 0 /\ written = 0 /\ duplicates_skipped = 0
  /\ result = NoResult
  /\ placed = <<>> /\ touched = {} /\ skipped = {}

\* the ingestion is called directly (Public API), no GUI handler is running
NoGui ==
  /\ master_path = "" /\ month_report_path = "" /\ button = ""
  /\ calls = <<>> /\ log = <<>> /\ dialog = ""

Init ==
  /\ \E sc \in Scenarios : master = sc[1] /\ month = sc[2]
  /\ backups = <<>>
  /\ master0 = master
  /\ rerun = FALSE /\ first = NoResult
  /\ Fresh
  /\ NoGui

Raise(e) ==
  /\ pc' = "raised"
  /\ error' = e

ws == wb[APR_SHEET]

\* faulty variant: the backup is made on entry, before the month file is checked
CheckFiles_BackupOnEntry ==
  /\ pc = "idle"
  /\ IF master.kind = "missing"
     THEN Raise("FileNotFoundError: Master not found") /\ UNCHANGED <<backups, backup_path>>
     ELSE /\ backups' = Append(backups, master)
          /\ backup_path' = Len(backups')
          /\ IF month.kind = "missing"
             THEN Raise("FileNotFoundError: Month file not found")
             ELSE pc' = "read_month" /\ error' = error
  /\ master0' = master
  /\ UNCHANGED <<gui, master, month, month_df, wb, existing_keys, last_used_before, resolved_map,
                 skipped_targets, missing_monthly, i, written, duplicates_skipped, result,
                 rerun, first, placed, touched, skipped>>

\* lines 389-392: both paths must name files
CheckFiles ==
  /\ pc = "idle"
  /\ IF master.kind = "missing" THEN Raise("FileNotFoundError: Master not found")
     ELSE IF month.kind = "missing" THEN Raise("FileNotFoundError: Month file not found")
     ELSE pc' = "read_month" /\ error' = error
  /\ master0' = master
  /\ UNCHANGED <<gui, files, locals, result, rerun, first, placed, touched, skipped>>

\* line 395: _read_month_file
ReadMonth ==
  /\ pc = "read_month"
  /\ IF month.kind # "xlsx"
     THEN Raise("RuntimeError: Failed to read monthly file") /\ month_df' = month_df
     ELSE pc' = "load" /\ error' = error /\ month_df' = _read_month_file(month)
  /\ UNCHANGED <<gui, files, wb, existing_keys, last_used_before, resolved_map, skipped_targets,
                 missing_monthly, backup_path, i, written, duplicates_skipped, result, history>>

\* lines 397-401: load_workbook and the sheet check
LoadWorkbook ==
  /\ pc = "load"
  /\ wb' = master.sheets
  /\ IF APR_SHEET \notin DOMAIN master.sheets
     THEN Raise("RuntimeError: 'APR Bundle' sheet not found in master.")
     ELSE pc' = "prepare" /\ error' = error
  /\ UNCHANGED <<gui, files, month_df, existing_keys, last_used_before, resolved_map,
                 skipped_targets, missing_monthly, backup_path, i, written,
                 duplicates_skipped, result, history>>

Labels == [k \in 1..Len(COLUMN_MAP) |-> COLUMN_MAP[k].label]
InFrame(label) == label \in month_df.columns

\* lines 403-425: the existing keys, the last used row and the column mapping
Prepare ==
  /\ pc = "prepare"
  /\ existing_keys' = _read_existing_keys(ws)
  /\ last_used_before' = _last_used_row(ws)[1]
  /\ LET apr_header_map == _build_apr_header_index(ws)
         col_idx(l) == _resolve_target_col(apr_header_map, TargetList(l))
     IN  /\ resolved_map' =
               [l \in {m \in MonthlyLabels : InFrame(m) /\ col_idx(m) # 0} |-> col_idx(l)]
         /\ skipped_targets' =
               [l \in {m \in MonthlyLabels : InFrame(m) /\ col_idx(m) = 0} |-> TargetList(l)]
  /\ missing_monthly' = SelectSeq(Labels, LAMBDA l : ~InFrame(l))
  /\ pc' = "backup"
  /\ UNCHANGED <<gui, files, error, month_df, wb, backup_path, i, written, duplicates_skipped,
                 result, history>>

\* faulty variant: the copy is not made
_backup_master_Skipped(dir, file) == dir

\* _backup_master: copy the MASTER file into _backups/
_backup_master(dir, file) == Append(dir, file)

\* line 428
Backup ==
  /\ pc = "backup"
  /\ backups' = _backup_master(backups, master)
  /\ backup_path' = Len(backups')
  /\ pc' = "backed_up"
  /\ UNCHANGED <<gui, master, month, error, month_df, wb, existing_keys, last_used_before,
                 resolved_map, skipped_targets, missing_monthly, i, written,
                 duplicates_skipped, result, history>>

\* faulty variant: the header row is counted as a data row
rows_before_WithHeader == last_used_before

\* line 408: data starts at row 2
rows_before == IF last_used_before - 1 > 0 THEN last_used_before - 1 ELSE 0

\* faulty variant: the empty mapping is not detected
NothingResolved_Never == FALSE

\* line 430: not resolved_map
NothingResolved == DOMAIN resolved_map = {}

\* lines 430-442: nothing resolved
EarlyReturn ==
  /\ pc = "backed_up"
  /\ NothingResolved
  /\ result' = [master_backup |-> backup_path,
                updated_master |-> "MASTER",
                rows_before |-> rows_before,
                rows_added |-> 0,
                rows_after |-> rows_before,
                sheet |-> APR_SHEET,
                unmapped_monthly_columns |-> missing_monthly,
                unresolved_targets |-> skipped_targets,
                resolved_map |-> NoMap]
  /\ pc' = "done"
  /\ UNCHANGED <<gui, files, error, locals, history>>

\* faulty variant: the first row written is the last used row
start_row_OffByOne == last_used_before

\* line 445
start_row == last_used_before + 1

\* faulty variant: a row is placed by its position in the batch
target_row_ByBatchIndex == start_row + i

\* line 459: compact placement
target_row == start_row + written

\* faulty variant: the key of a written row is not remembered
KeysWithRow_Forgotten(row_key) == existing_keys

\* line 483: the key of a written row joins the existing keys
KeysWithRow(row_key) == existing_keys \cup {row_key}

\* lines 452-483: one turn of the write loop, for monthly row i + 1
WriteRow ==
  /\ pc = "backed_up"
  /\ ~NothingResolved
  /\ i < Len(month_df.rows)
  /\ LET series == month_df.rows[i + 1]
         row_key == _make_row_key(series)
         colvals == [c \in {resolved_map[l] : l \in DOMAIN resolved_map} |->
                      CellValue(CHOOSE l \in DOMAIN resolved_map : resolved_map[l] = c,
                                series[CHOOSE l \in DOMAIN resolved_map : resolved_map[l] = c])]
         row_has_any == \E c \in DOMAIN colvals : colvals[c] # None
     IN  IF row_key \in existing_keys
         THEN /\ duplicates_skipped' = duplicates_skipped + 1
              /\ skipped' = skipped \cup {i + 1}
              /\ UNCHANGED <<wb, written, existing_keys, placed, touched>>
         ELSE /\ wb' = [wb EXCEPT ![APR_SHEET] = WriteCells(ws, target_row, colvals)]
              /\ touched' = touched \cup {<<target_row, c>> : c \in DOMAIN colvals}
              /\ IF row_has_any
                 THEN /\ written' = written + 1
                      /\ existing_keys' = KeysWithRow(row_key)
                      /\ placed' = Append(placed, <<i + 1, target_row>>)
                 ELSE UNCHANGED <<written, existing_keys, placed>>
              /\ UNCHANGED <<duplicates_skipped, skipped>>
  /\ i' = i + 1
  /\ UNCHANGED <<gui, files, pc, error, month_df, last_used_before, resolved_map, skipped_targets,
                 missing_monthly, backup_path, result, rerun, first, master0>>

\* faulty variant: the workbook is saved as soon as the loop ends
Finalize_SavesEarly ==
  /\ pc = "backed_up"
  /\ ~NothingResolved
  /\ i = Len(month_df.rows)
  /\ wb' = [wb EXCEPT ![APR_SHEET] =
              _normalize_purchase_date_column(_expand_filters_and_tables(ws))]
  /\ master' = [master EXCEPT !.sheets = wb']
  /\ pc' = "save"
  /\ UNCHANGED <<gui, month, backups, error, month_df, existing_keys, last_used_before,
                 resolved_map, skipped_targets, missing_monthly, backup_path, i, written,
                 duplicates_skipped, result, history>>

\* lines 485-487: after the loop
Finalize ==
  /\ pc = "backed_up"
  /\ ~NothingResolved
  /\ i = Len(month_df.rows)
  /\ wb' = [wb EXCEPT ![APR_SHEET] =
              _normalize_purchase_date_column(_expand_filters_and_tables(ws))]
  /\ pc' = "save"
  /\ UNCHANGED <<gui, files, error, month_df, existing_keys, last_used_before, resolved_map,
                 skipped_targets, missing_monthly, backup_path, i, written,
                 duplicates_skipped, result, history>>

\* lines 489-490: wb.save(master_xlsm_path)
Save ==
  /\ pc = "save"
  /\ master' = [master EXCEPT !.sheets = wb]
  /\ pc' = "saved"
  /\ UNCHANGED <<gui, month, backups, error, locals, result, history>>

\* lines 492-508
Return ==
  /\ pc = "saved"
  /\ LET last_used_after == _last_used_row(ws)[1]
         rows_after == IF last_used_after - 1 > 0 THEN last_used_after - 1 ELSE 0
     IN  result' = [master_backup |-> backup_path,
                    updated_master |-> "MASTER",
                    rows_before |-> rows_before,
                    rows_added |-> written,
                    rows_after |-> rows_after,
                    sheet |-> APR_SHEET,
                    dedupe_skipped |-> duplicates_skipped,
                    unmapped_monthly_columns |-> SelectSeq(Labels, LAMBDA l : ~InFrame(l)),
                    unresolved_targets |-> skipped_targets,
                    resolved_map |-> [l \in DOMAIN resolved_map |->
                                        get_column_letter(resolved_map[l])]]
  /\ pc' = "done"
  /\ UNCHANGED <<gui, files, error, locals, history>>

\* The caller ingests the same monthly report a second time, against the
\* MASTER the first ingestion left
IngestAgain ==
  /\ pc = "done"
  /\ ~rerun
  /\ rerun' = TRUE
  /\ first' = result
  /\ master0' = master
  /\ pc' = "idle" /\ error' = ""
  /\ month_df' = NoFrame /\ wb' = NoWorkbook
  /\ existing_keys' = {} /\ last_used_before' = 0
  /\ resolved_map' = NoMap /\ skipped_targets' = NoMap /\ missing_monthly' = <<>>
  /\ backup_path' = 0 /\ i' = 0 /\ written' = 0 /\ duplicates_skipped' = 0
  /\ result' = NoResult
  /\ placed' = <<>> /\ touched' = {} /\ skipped' = {}
  /\ UNCHANGED <<gui, files>>

Next ==
  \/ CheckFiles
  \/ ReadMonth
  \/ LoadWorkbook
  \/ Prepare
  \/ Backup
  \/ EarlyReturn
  \/ WriteRow
  \/ Finalize
  \/ Save
  \/ Return
  \/ IngestAgain

Spec == Init /\ [][Next]_vars

(***************************************************************************)
(* The GUI (PiramieExcelMaker_gui.py): the two drop zones and the two      *)
(* buttons.  A behaviour selects files and then presses one button; what   *)
(* process_excel_file writes into the workbook is outside this model, its  *)
(* call and its outcome are recorded.                                      *)
(***************************************************************************)
MaxSelections == 2

EndsWith(s, suffix) ==
  Len(s) >= Len(suffix) /\ SubSeq(s, Len(s) - Len(suffix) + 1, Len(s)) = suffix

\* the paths dropped on the MASTER zone and on the MONTH zone
MasterPaths == {"Ledger.XLSM", "ledger.xlsx"}
MonthPaths == {"jan.xlsx", "jan.csv"}

\* os.path.isfile of the selected paths
MasterIsFile == master.kind # "missing"
MonthIsFile == month.kind # "missing"

\* dict.get(key, default)
Get(d, key, default) == IF key \in DOMAIN d THEN d[key] ELSE default

\* lines 147-152
_set_master(path) ==
  /\ button = ""
  /\ Len(log) < MaxSelections
  /\ IF ~EndsWith(lower(path), ".xlsm")
     THEN dialog' = "Invalid file" /\ UNCHANGED <<master_path, log>>
     ELSE /\ master_path' = path
          /\ log' = Append(log, "MASTER selected: " \o path)
          /\ dialog' = dialog
  /\ UNCHANGED <<files, pc, error, locals, result, history, month_report_path, button, calls>>

\* lines 154-159
_set_month(path) ==
  /\ button = ""
  /\ Len(log) < MaxSelections
  /\ IF ~(EndsWith(lower(path), ".xlsx") \/ EndsWith(lower(path), ".xls"))
     THEN dialog' = "Invalid file" /\ UNCHANGED <<month_report_path, log>>
     ELSE /\ month_report_path' = path
          /\ log' = Append(log, "MONTH report selected: " \o path)
          /\ dialog' = dialog
  /\ UNCHANGED <<files, pc, error, locals, result, history, master_path, button, calls>>

\* lines 162-174: 'Run Core Only'
_run_core_only ==
  /\ button = ""
  /\ button' = "core_only"
  /\ IF master_path = "" \/ ~MasterIsFile
     THEN dialog' = "Missing MASTER" /\ UNCHANGED <<calls, log>>
     ELSE /\ calls' = Append(calls, "process_excel_file")
          /\ \E raised \in BOOLEAN :
               IF raised
               THEN /\ log' = log \o <<"Running Core Only...", "ERROR (Core Only)">>
                    /\ dialog' = "Run failed"
               ELSE /\ log' = log \o <<"Running Core Only...", "Core processing complete.">>
                    /\ dialog' = "Success"
  /\ UNCHANGED <<files, pc, error, locals, result, history, master_path, month_report_path>>

\* lines 176-188: 'Ingest + Core', up to the call of the ingestion
_run_ingest_then_core ==
  /\ button = ""
  /\ button' = "ingest_core"
  /\ IF master_path = "" \/ ~MasterIsFile
     THEN dialog' = "Missing MASTER" /\ UNCHANGED <<calls, log>>
     ELSE IF month_report_path = "" \/ ~MonthIsFile
     THEN dialog' = "Missing MONTH" /\ UNCHANGED <<calls, log>>
     ELSE /\ calls' = Append(calls, "ingest_month_into_apr_bundle")
          /\ log' = Append(log, "Step 1/2: Ingesting month into APR Bundle (backup first)...")
          /\ dialog' = dialog
  /\ UNCHANGED <<files, pc, error, locals, result, history, master_path, month_report_path>>

\* the ingestion called at line 188 is running
Ingesting == button = "ingest_core" /\ calls = <<"ingest_month_into_apr_bundle">>

\* lines 190-197: the lines logged from the summary
SummaryLines(summary) ==
  LET rows_appended == Get(summary, "rows_appended", 0)
      fr == Get(summary, "first_row_written", 0)
      lr == Get(summary, "last_row_written", 0)
      range_str == IF fr # 0 /\ lr # 0
                   THEN " (rows " \o IntToStr(fr) \o "-" \o IntToStr(lr) \o ")" ELSE ""
  IN  <<"  Backup created: " \o IntToStr(Get(summary, "master_backup", 0)),
        "  Rows appended: " \o IntToStr(rows_appended) \o range_str,
        "  Sheet updated: " \o Get(summary, "sheet", "APR Bundle")>>

\* lines 190-201: the ingestion returned; log the summary, then run the core
IngestReturned ==
  /\ Ingesting
  /\ pc = "done"
  /\ calls' = Append(calls, "process_excel_file")
  /\ \E raised \in BOOLEAN :
       IF raised
       THEN /\ log' = log \o SummaryLines(result)
                        \o <<"Step 2/2: Running core processor on MASTER...",
                             "ERROR (Ingest + Core)">>
            /\ dialog' = "Run failed"
       ELSE /\ log' = log \o SummaryLines(result)
                        \o <<"Step 2/2: Running core processor on MASTER...",
                             "Core processing complete.">>
            /\ dialog' = dialog
  /\ UNCHANGED <<files, pc, error, locals, result, history, master_path, month_report_path,
                 button>>

\* faulty variant: the core processor runs although the ingestion raised
IngestRaised_RunsCore ==
  /\ Ingesting
  /\ pc = "raised"
  /\ calls' = Append(calls, "process_excel_file")
  /\ log' = log \o <<"ERROR (Ingest + Core)", "Step 2/2: Running core processor on MASTER...">>
  /\ dialog' = "Run failed"
  /\ UNCHANGED <<files, pc, error, locals, result, history, master_path, month_report_path,
                 button>>

\* lines 203-206: the ingestion raised
IngestRaised ==
  /\ Ingesting
  /\ pc = "raised"
  /\ log[Len(log)] # "ERROR (Ingest + Core)"
  /\ log' = Append(log, "ERROR (Ingest + Core)")
  /\ dialog' = "Run failed"
  /\ UNCHANGED <<files, pc, error, locals, result, history, master_path, month_report_path,
                 button, calls>>

\* the steps of ingest_month_into_apr_bundle
IngestStep ==
  \/ CheckFiles
  \/ ReadMonth
  \/ LoadWorkbook
  \/ Prepare
  \/ Backup
  \/ EarlyReturn
  \/ WriteRow
  \/ Finalize
  \/ Save
  \/ Return

\* the pairs (MASTER, monthly report) on disk when the GUI starts
GuiScenarios ==
  {Master(FullSheet(rows)) : rows \in SeqsUpTo({LedgerAnn}, MaxLedgerRows - 1)}
      \X {MonthFile(MonthHeaders, rows) : rows \in SeqsUpTo({MonthAnn, MonthBob}, MaxBatch - 1)}
    \cup ({Master(Sheet(HeaderOther, << <<Str("North"), Num(3)>> >>, "A1:B2", <<>>)),
           MasterMissing, MasterNoSheet}
            \X {MonthFile(MonthHeaders, <<MonthAnn>>), MonthMissing, MonthCorrupt})
    \cup {<<Master(FullSheet(<<LedgerAnn>>)), MonthMissing>>,
          <<Master(FullSheet(<<LedgerAnn>>)), MonthCorrupt>>}

GuiInit ==
  /\ \E sc \in GuiScenarios : master = sc[1] /\ month = sc[2]
  /\ backups = <<>>
  /\ master0 = master
  /\ rerun = FALSE /\ first = NoResult
  /\ Fresh
  /\ NoGui

GuiNext ==
  \/ \E path \in MasterPaths : _set_master(path)
  \/ \E path \in MonthPaths : _set_month(path)
  \/ _run_core_only
  \/ _run_ingest_then_core
  \/ Ingesting /\ IngestStep
  \/ IngestReturned
  \/ IngestRaised

GuiSpec == GuiInit /\ [][GuiNext]_vars

(***************************************************************************)
(* Properties.                                                             *)
(***************************************************************************)
Returned == pc = "done"
EmptyMapping == DOMAIN resolved_map = {}
\* the run took the write path (lines 444-508)
FullRun == Returned /\ ~EmptyMapping
apr0 == master0.sheets[APR_SHEET]

\* the rows of the monthly batch and their keys
BatchRows == 1..Len(month_df.rows)
BatchKey(k) == _make_row_key(month_df.rows[k])
\* the value the write loop stores for row k under monthly label l
Stored(k, l) == CellValue(l, month_df.rows[k][l])
HasValue(k) == \E l \in DOMAIN resolved_map : Stored(k, l) # None
PlacedRows == {placed[j][1] : j \in 1..Len(placed)}

\* C1: idempotence. When the same monthly report is ingested again against
\* the MASTER left by the first ingestion, the second run adds no row.
C1_Idempotence ==
  (Returned /\ rerun) => result.rows_added = 0

\* C2: key determinism. A monthly row that the run wrote to the sheet has,
\* read back from its sheet row by _read_existing_keys, the key that
\* _make_row_key gave it, whatever headers the ledger has.
C2_KeyDeterminism ==
  FullRun =>
    \A j \in 1..Len(placed) :
      LedgerRowKey(ws, PresentFields(ws), placed[j][2]) = BatchKey(placed[j][1])

\* C3: deduplicated append counts. When every batch row has a non-empty
\* resolved field, the rows written are the first occurrences, in batch
\* order, of the batch keys that are not keys of the ledger; rows_added is
\* their number and the duplicate count is the rest of the batch.
FirstOccurrences ==
  {k \in BatchRows :
     /\ BatchKey(k) \notin _read_existing_keys(apr0)
     /\ \A h \in 1..(k - 1) : BatchKey(h) # BatchKey(k)}

C3_DedupCounts ==
  (FullRun /\ \A k \in BatchRows : HasValue(k)) =>
    /\ PlacedRows = FirstOccurrences
    /\ \A j \in 1..(Len(placed) - 1) : placed[j][1] < placed[j + 1][1]
    /\ result.rows_added = Cardinality(FirstOccurrences)
    /\ result.dedupe_skipped = Len(month_df.rows) - result.rows_added

\* ledger keys K1, K2, K3 and batch keys K2, K4, K5, K4, K6: three rows
\* written, two duplicates
C3_Witness ==
  /\ FullRun /\ \A k \in BatchRows : HasValue(k)
  /\ Cardinality(_read_existing_keys(apr0)) = 3
  /\ Len(month_df.rows) = 5
  /\ BatchKey(1) \in _read_existing_keys(apr0)
  /\ BatchKey(4) = BatchKey(2)
  /\ PlacedRows = {2, 3, 5}
  /\ result.rows_added = 3
  /\ result.dedupe_skipped = 2

\* C4: append contiguity. The j-th accepted row is on sheet row
\* last_used_before + j, holds the values of its monthly row and is not
\* blank; after the loop the last used row is last_used_before + written.
RowOnSheet(j) ==
  /\ placed[j][2] = last_used_before + j
  /\ \A l \in DOMAIN resolved_map :
       Cell(ws, placed[j][2], resolved_map[l]) = Stored(placed[j][1], l)
  /\ \E c \in 1.._last_used_row(ws)[2] : Cell(ws, placed[j][2], c) # None

C4_Contiguity ==
  (pc \in {"backed_up", "save", "saved", "done"} /\ ~EmptyMapping) =>
    /\ Len(placed) = written
    /\ \A j \in 1..Len(placed) : RowOnSheet(j)
    /\ \A j \in 1..(Len(placed) - 1) : placed[j][1] < placed[j + 1][1]
    /\ (pc # "backed_up" => _last_used_row(ws)[1] = last_used_before + written)
    /\ (Returned => result.rows_added = written)

\* rows accepted after a skipped duplicate
C4_Witness ==
  /\ FullRun
  /\ written = 2
  /\ duplicates_skipped >= 1
  /\ placed[1][1] > 1
  /\ last_used_before >= 2

\* C5: backup before mutation. Every run that returns has a backup, and
\* from the first cell written or the file saved on, the run's backup
\* exists and is the MASTER file as it was when the run began.
HasBackup == backup_path # 0 /\ backups[backup_path] = master0
Mutated == touched # {} \/ master # master0 \/ (DOMAIN wb # {} /\ wb # master0.sheets)

C5_BackupFirst ==
  /\ Returned => (HasBackup /\ result.master_backup = backup_path)
  /\ Mutated => HasBackup
  /\ pc \in {"save", "saved"} => HasBackup

\* a run that returned with no row written, holding its backup
C5_Witness ==
  /\ Returned /\ result.rows_added = 0 /\ HasBackup
  /\ EmptyMapping

\* C6: fatal errors come before the backup and write phase. A run that
\* ended with FileNotFoundError or RuntimeError made no backup, wrote no
\* cell and left the MASTER file as it was.
FatalErrors ==
  {"FileNotFoundError: Master not found",
   "FileNotFoundError: Month file not found",
   "RuntimeError: Failed to read monthly file",
   "RuntimeError: 'APR Bundle' sheet not found in master."}

C6_ErrorsBeforeMutation ==
  /\ pc = "raised" =>
       /\ error \in FatalErrors
       /\ backup_path = 0 /\ backups = <<>>
       /\ touched = {}
       /\ master = master0
       /\ wb \in {NoWorkbook, master0.sheets}
  /\ pc # "raised" => error = ""

C6_Witness ==
  pc = "raised" /\ error = "RuntimeError: 'APR Bundle' sheet not found in master."

\* C7: the header row is never mutated. Row 1 of the loaded sheet and of
\* the saved sheet is row 1 of the ledger the run began with, and every
\* cell the write loop assigns is below the last used row.
C7_HeaderUntouched ==
  /\ (APR_SHEET \in DOMAIN wb) => ws.cells[1] = apr0.cells[1]
  /\ (APR_SHEET \in DOMAIN master.sheets) => master.sheets[APR_SHEET].cells[1] = apr0.cells[1]
  /\ \A t \in touched : t[1] > last_used_before /\ t[1] > 1

\* rows were appended to a ledger without data rows
C7_Witness ==
  /\ FullRun
  /\ last_used_before = 1
  /\ written >= 1
  /\ master # master0

Prepared == pc \in {"backup", "backed_up", "save", "saved", "done"}

C9_EmptyMapping ==
  (Prepared /\ EmptyMapping) =>
    /\ pc \in {"backup", "backed_up", "done"}
    /\ error = ""
    /\ touched = {} /\ wb = master0.sheets /\ master = master0
    /\ Returned =>
         /\ HasBackup /\ result.master_backup = backup_path
         /\ result.rows_added = 0
         /\ result.rows_after = result.rows_before
         /\ result.rows_before = rows_before
         /\ result.unmapped_monthly_columns = missing_monthly
         /\ result.unresolved_targets = skipped_targets
         /\ DOMAIN result.resolved_map = {}

\* an empty mapping with both kinds of diagnostics
C9_Witness ==
  /\ Returned /\ EmptyMapping
  /\ missing_monthly # <<>>
  /\ DOMAIN skipped_targets # {}
  /\ HasBackup

\* C10: every returned result holds all the keys of the result record.
ResultKeys ==
  {"master_backup", "updated_master", "rows_before", "rows_added", "rows_after",
   "dedupe_skipped", "sheet", "unmapped_monthly_columns", "unresolved_targets",
   "resolved_map"}

C10_ResultComplete ==
  Returned => ResultKeys \subseteq DOMAIN result

\* the key of a record without any dedupe field
AllNullKey == [k \in 1..Len(DEDUPE_FIELDS) |-> None]

\* C11: null-safety. A monthly row whose key is all null is never skipped
\* as a duplicate, neither of a ledger row nor of an earlier batch row.
C11_NullSafety ==
  \A k \in skipped : BatchKey(k) # AllNullKey

\* the parts of an A1-style range "<start>:<end>"
IsRange(ref) ==
  /\ Len(SplitColon(ref)) = 2
  /\ DigitsOf(SplitColon(ref)[1]) # "" /\ DigitsOf(SplitColon(ref)[2]) # ""
StartRow(ref) == DigitsValue(DigitsOf(SplitColon(ref)[1]))
StartCol(ref) == AlphaOf(SplitColon(ref)[1])
EndRow(ref) == DigitsValue(DigitsOf(SplitColon(ref)[2]))
EndCol(ref) == AlphaOf(SplitColon(ref)[2])
Anchored(ref) == IsRange(ref) /\ StartRow(ref) = 1
SameColumns(old, new) == StartCol(new) = StartCol(old) /\ EndCol(new) = EndCol(old)

\* the ledger sheet on disk
saved == master.sheets[APR_SHEET]

\* C12 as claimed: after a run of the write path the filter range and every
\* table range anchored at row 1 end on the last used row, and keep their
\* start row, start column and end column.
C12_RangeExtension ==
  FullRun =>
    /\ apr0.auto_filter # "" =>
         /\ EndRow(saved.auto_filter) = _last_used_row(saved)[1]
         /\ StartRow(saved.auto_filter) = StartRow(apr0.auto_filter)
         /\ SameColumns(apr0.auto_filter, saved.auto_filter)
    /\ \A k \in 1..Len(apr0.tables) :
         Anchored(apr0.tables[k]) =>
           /\ EndRow(saved.tables[k]) = _last_used_row(saved)[1]
           /\ StartRow(saved.tables[k]) = 1
           /\ SameColumns(apr0.tables[k], saved.tables[k])

\* C12 as amended: every table range anchored at row 1 ends on the last
\* used row and keeps its start row and its columns; the filter range, when
\* the sheet has one, runs from A1 to the last header column and the last
\* used row, whatever columns it spanned before.
C12_RangesExtended ==
  FullRun =>
    /\ Len(saved.tables) = Len(apr0.tables)
    /\ (apr0.auto_filter = "") = (saved.auto_filter = "")
    /\ apr0.auto_filter # "" =>
         /\ EndRow(saved.auto_filter) = _last_used_row(saved)[1]
         /\ StartRow(saved.auto_filter) = 1
         /\ StartCol(saved.auto_filter) = "A"
         /\ EndCol(saved.auto_filter) = get_column_letter(_last_used_row(saved)[2])
    /\ \A k \in 1..Len(apr0.tables) :
         Anchored(apr0.tables[k]) =>
           /\ EndRow(saved.tables[k]) = _last_used_row(saved)[1]
           /\ StartRow(saved.tables[k]) = 1
           /\ SameColumns(apr0.tables[k], saved.tables[k])

\* a filter on columns B..C was widened to A..D while the table B1:C2 was
\* lengthened only
C12_Witness ==
  /\ FullRun /\ written >= 1
  /\ apr0.auto_filter = "B1:C2"
  /\ StartCol(saved.auto_filter) = "A" /\ EndCol(saved.auto_filter) = "D"
  /\ \E k \in 1..Len(apr0.tables) :
       /\ apr0.tables[k] = "B1:C2"
       /\ StartCol(saved.tables[k]) = "B" /\ EndCol(saved.tables[k]) = "C"
       /\ EndRow(saved.tables[k]) = last_used_before + written

\* C13: tables are only lengthened. After any run a table anchored at row 1
\* has its start and end columns unchanged and an end row not smaller than
\* before; any other table keeps its range.
C13_TablesOnlyLengthened ==
  Returned =>
    /\ Len(saved.tables) = Len(apr0.tables)
    /\ \A k \in 1..Len(apr0.tables) :
         IF Anchored(apr0.tables[k])
         THEN /\ SameColumns(apr0.tables[k], saved.tables[k])
              /\ EndRow(saved.tables[k]) >= EndRow(apr0.tables[k])
         ELSE saved.tables[k] = apr0.tables[k]

\* a value that is neither empty nor a datetime and whose text is a date
ParsesAsDate(v) == v # None /\ v.t # "dt" /\ ~isna(to_datetime(Str(str(v))))

\* C14: date-column normalisation. In every returned run no error was
\* raised; in rows 2 .. last used row of the saved 'Purchase Date' column no
\* cell is left holding a value that parses as a date without being a
\* datetime; an old cell that parsed holds the parsed datetime, and an old
\* cell that was empty, a datetime or unparseable holds its old value.
C14_DatesNormalised ==
  Returned =>
    /\ error = ""
    /\ LET col == _find_header_col(saved, "Purchase Date")
       IN  col # 0 =>
             /\ \A r \in 2.._last_used_row(saved)[1] : ~ParsesAsDate(Cell(saved, r, col))
             /\ \A r \in 2..last_used_before :
                  Cell(saved, r, col) =
                    IF ParsesAsDate(Cell(apr0, r, col))
                    THEN to_datetime(Str(str(Cell(apr0, r, col))))
                    ELSE Cell(apr0, r, col)

\* a run that found a text date with a sub-second part and a text that is
\* no date in the old rows, and appended a row with a date of its own
C14_Witness ==
  /\ Returned
  /\ \E r \in 2..last_used_before :
       /\ Cell(apr0, r, 4) = Str("2024-01-06 10:00:00.25")
       /\ Cell(saved, r, 4) = Dt(6, 250000)
  /\ \E r \in 2..last_used_before : Cell(saved, r, 4) = Str("tbc")
  /\ \E r \in (last_used_before + 1)..max_row(saved) : Cell(saved, r, 4).t = "dt"

\* Spellings of a header that differ from it only in letter case, in
\* leading or trailing whitespace or in the length of its whitespace runs
RECURSIVE UpperCase(_)
UpperCase(s) ==
  IF s = "" THEN ""
  ELSE (IF Head(s) \in LowerChars
        THEN SubSeq(UPPER, IndexIn(Head(s), LOWER), IndexIn(Head(s), LOWER))
        ELSE Head(s)) \o UpperCase(Tail(s))

RECURSIVE WidenSpaces(_, _)
WidenSpaces(s, gap) ==
  IF s = "" THEN ""
  ELSE (IF IsSpace(Head(s)) THEN gap ELSE Head(s)) \o WidenSpaces(Tail(s), gap)

Spellings(s) ==
  {"\t " \o s \o "  ", UpperCase(s), lower(s), WidenSpaces(s, "  "),
   WidenSpaces(" " \o s, " \t "), UpperCase(WidenSpaces(s \o " ", "   "))}

\* the header texts of the loaded ledger and of the monthly report
LedgerHeaders == {str(ws.cells[1][c]) : c \in HeaderCols(ws)}
MonthHeaderRow == month.cells[MONTH_HEADER_ROW + 1]
MonthlyHeaders == {str(MonthHeaderRow[c]) : c \in {k \in 1..Len(MonthHeaderRow) : ~isna(MonthHeaderRow[k])}}
AliasKeys == {aliases[k][1] : k \in 1..Len(aliases)}

\* the sheet with the header of column c respelled
Respelled(sheet, c, text) == [sheet EXCEPT !.cells[1][c] = Str(text)]

\* C15: header tolerance. Every spelling of a header of the ledger or of
\* the monthly report that differs only in case and whitespace has the
\* same normal form, which _norm leaves as it is; it has the same canonical
\* monthly label when the header is an alias, resolves to the same ledger
\* column as a target, and gives the same header index as a ledger header.
\* The headers do not depend on the data rows: the check is made once per
\* pair of header rows, in the first runs of the reports of at most one row.
C15_HeaderTolerance ==
  (pc = "backup" /\ ~rerun /\ Len(month_df.rows) <= 1) =>
    LET idx == _build_apr_header_index(ws)
    IN  /\ \A h \in LedgerHeaders \cup MonthlyHeaders :
             LET n == _norm(h)
             IN  \A v \in Spellings(h) :
                   /\ _norm(v) = n
                   /\ _norm(_norm(v)) = _norm(v)
                   /\ n \in AliasKeys => Canonical(v) = Canonical(h)
                   /\ _resolve_target_col(idx, <<v>>) = _resolve_target_col(idx, <<h>>)
        /\ \A c \in HeaderCols(ws) : \A v \in Spellings(str(ws.cells[1][c])) :
             _build_apr_header_index(Respelled(ws, c, v)) = idx

\* the ledger spells two targets with a double space and with lower case
\* and a trailing space, the report spells 'Amount' with a leading space,
\* and all of them resolved
C15_Witness ==
  /\ pc = "backup" /\ ~rerun /\ Len(month_df.rows) <= 1
  /\ {"Purchase  Date", "purchase_amt "} \subseteq LedgerHeaders
  /\ " amount" \in MonthlyHeaders
  /\ {"Purchase Date", "Amount"} \subseteq DOMAIN resolved_map
  /\ resolved_map["Purchase Date"] = 4 /\ resolved_map["Amount"] = 6

\* Ordered lists of target spellings: those of COLUMN_MAP and lists whose
\* spellings name different columns, or none
CandidateLists ==
  {TargetList(l) : l \in MonthlyLabels}
    \cup {<<"Total", "STAT", "MSISDN">>, <<"msisdn ", "Stat">>, <<"purchase  date", "Region">>,
          <<"Balance", "Owner">>, <<>>}

\* the normalised headers of row 1, by column ("" under a column without header)
RECURSIVE NormedUpTo(_, _)
NormedUpTo(sheet, n) ==
  IF n = 0 THEN <<>>
  ELSE Append(NormedUpTo(sheet, n - 1),
              IF isna(sheet.cells[1][n]) THEN "" ELSE _norm(str(sheet.cells[1][n])))
NormedHeaders(sheet) == NormedUpTo(sheet, max_column(sheet))

\* the columns whose header is the spelling, compared normalised
ColumnsSpelled(sheet, normed, spelling) ==
  {c \in HeaderCols(sheet) : normed[c] = _norm(spelling)}
\* the positions of the list whose spelling occurs in the header row
SpellingsPresent(sheet, normed, candidates) ==
  {k \in 1..Len(candidates) : ColumnsSpelled(sheet, normed, candidates[k]) # {}}

\* C16: column resolution picks the first spelling present. The resolver
\* returns a column whose header is the earliest spelling of the list that
\* occurs in the header row (the last such column when several columns
\* carry that header) and returns None exactly when no spelling occurs; the
\* run resolves a monthly field of the report exactly when that is a column.
C16_FirstSpellingPresent ==
  (pc = "backup" /\ ~rerun) =>
    LET idx == _build_apr_header_index(ws)
        normed == NormedHeaders(ws)
    IN  /\ \A candidates \in CandidateLists :
             LET present == SpellingsPresent(ws, normed, candidates)
                 col == _resolve_target_col(idx, candidates)
             IN  IF present = {} THEN col = 0
                 ELSE col = SetMax(ColumnsSpelled(ws, normed, candidates[SetMin(present)]))
        /\ \A l \in MonthlyLabels :
             InFrame(l) =>
               LET present == SpellingsPresent(ws, normed, TargetList(l))
               IN  IF present = {}
                   THEN l \in DOMAIN skipped_targets /\ l \notin DOMAIN resolved_map
                   ELSE /\ l \in DOMAIN resolved_map /\ l \notin DOMAIN skipped_targets
                        /\ resolved_map[l] \in
                             ColumnsSpelled(ws, normed, TargetList(l)[SetMin(present)])

\* a ledger with columns for the second and the third spelling of a list,
\* and for both spellings of another; a list without any column
C16_Witness ==
  /\ pc = "backup" /\ ~rerun
  /\ SpellingsPresent(ws, NormedHeaders(ws), <<"Total", "STAT", "MSISDN">>) = {2, 3}
  /\ _resolve_target_col(_build_apr_header_index(ws), <<"Total", "STAT", "MSISDN">>) = 7
  /\ SpellingsPresent(ws, NormedHeaders(ws), <<"msisdn ", "Stat">>) = {1, 2}
  /\ _resolve_target_col(_build_apr_header_index(ws), <<"msisdn ", "Stat">>) = 3
  /\ _resolve_target_col(_build_apr_header_index(ws), <<"Balance", "Owner">>) = 0

\* the configured monthly fields that have a header in the monthly report
InInput(l) == \E h \in MonthlyHeaders : Canonical(h) = l
Unmapped == SeqToSet(result.unmapped_monthly_columns)

\* C17: the diagnostics partition the configured monthly fields. In every
\* returned result each key of COLUMN_MAP is in exactly one of the unmapped
\* fields, the unresolved targets and the resolved mapping; a field without
\* a header in the monthly report is among the unmapped ones, an unresolved
\* field has no column on the sheet; the write loop assigned cells of
\* resolved columns only.
C17_DiagnosticsPartition ==
  Returned =>
    /\ \A l \in MonthlyLabels :
         /\ Cardinality({n \in 1..3 :
                           \/ n = 1 /\ l \in Unmapped
                           \/ n = 2 /\ l \in DOMAIN result.unresolved_targets
                           \/ n = 3 /\ l \in DOMAIN result.resolved_map}) = 1
         /\ ~InInput(l) => l \in Unmapped
    /\ \A t \in touched : \E l \in DOMAIN resolved_map : resolved_map[l] = t[2]

\* C18: no dedupe field in the ledger header. The pre-scan then finds no
\* key and the run skips no monthly row as a duplicate: the duplicate
\* count stays 0 and every monthly row with a non-empty resolved field is
\* written, also one that repeats the key of an earlier row of the batch.
C18_NoDedupeFields ==
  (Prepared /\ Len(PresentFields(apr0)) = 0) =>
    /\ pc = "backup" => existing_keys = {}
    /\ skipped = {} /\ duplicates_skipped = 0
    /\ FullRun =>
         /\ result.dedupe_skipped = 0
         /\ PlacedRows = {k \in BatchRows : HasValue(k)}

\* the monthly rows the write loop has processed
Processed == 1..i

\* C19: the write-cursor rule. Throughout the write loop the rows counted
\* as written are the processed rows that are no duplicates and have a
\* non-empty resolved value, rows_added is their number and the duplicate
\* count the number of rows skipped; a processed row whose resolved fields
\* are all empty is counted neither as written nor as a duplicate, and no
\* row below the cursor holds a value.
C19_WriteCursor ==
  (pc \in {"backed_up", "save", "saved", "done"} /\ ~EmptyMapping) =>
    /\ PlacedRows = {k \in Processed : k \notin skipped /\ HasValue(k)}
    /\ written = Cardinality(PlacedRows)
    /\ duplicates_skipped = Cardinality(skipped)
    /\ \A k \in Processed : ~HasValue(k) => (k \notin PlacedRows /\ k \notin skipped)
    /\ \A r \in (last_used_before + written + 1)..max_row(ws) :
         \A c \in 1..max_column(ws) : Cell(ws, r, c) = None
    /\ Returned => (result.rows_added = written /\ result.dedupe_skipped = duplicates_skipped)

\* C20: immediate key insertion. The key of every processed row that was
\* not skipped as a duplicate is in the Existing-Key Set, whether or not a
\* value was written for the row, so that a processed row with the key of
\* an earlier batch row was skipped as a duplicate.
C20_ImmediateKeyInsertion ==
  (pc \in {"backed_up", "save", "saved", "done"} /\ ~EmptyMapping) =>
    /\ \A k \in Processed : k \notin skipped => BatchKey(k) \in existing_keys
    /\ \A k \in Processed : \A h \in 1..(k - 1) :
         BatchKey(h) = BatchKey(k) => k \in skipped

\* the run has not reached the end of the save step
BeforeSave == pc \in {"idle", "read_month", "load", "prepare", "backup", "backed_up", "save", "raised"}

\* C21: atomic persistence. The ledger file is changed by no step but the
\* save, and before the save step has run, also in a run that ended with
\* an error, the file is what it was when the run began.
C21_AtomicPersistence ==
  /\ [](BeforeSave => master = master0)
  /\ [][master' # master => (pc = "save" /\ pc' = "saved")]_vars

\* the loop has written rows to the workbook in memory, the backup exists,
\* and the file is still as it was
C21_Witness ==
  /\ pc = "save" /\ written > 0
  /\ wb[APR_SHEET] # master.sheets[APR_SHEET]
  /\ master = master0
  /\ HasBackup

\* the data rows below the header of a sheet, by its last used row
DataRows(sheet) ==
  LET last == _last_used_row(sheet)[1] IN IF last - 1 > 0 THEN last - 1 ELSE 0

\* C22: row-count consistency. In every result returned, rows_after is
\* rows_before plus rows_added, rows_before being the data rows of the
\* sheet the run began with and rows_after those of the sheet it left.
C22_RowCountConsistency ==
  Returned =>
    /\ result.rows_after = result.rows_before + result.rows_added
    /\ result.rows_before = DataRows(apr0)
    /\ result.rows_after = DataRows(saved)

\* a run over a ledger that already held rows, which appended some rows of
\* the batch and skipped others
C22_Witness ==
  /\ FullRun
  /\ result.rows_before >= 1 /\ result.rows_added >= 1
  /\ duplicates_skipped >= 1
  /\ \E k \in BatchRows : ~HasValue(k)

\* the monthly labels whose resolved column carries a header equal to
\* field f after normalisation
WrittenUnder(f) ==
  {l \in DOMAIN resolved_map : _norm(str(ws.cells[1][resolved_map[l]])) = _norm(f)}

\* C23: read/write column agreement. For every dedupe field the pre-scan
\* finds on the sheet, the column it reads (which for 'Purchase Date' is
\* the column date normalisation rewrites) is the column the write loop
\* writes the monthly field mapped to that header into.
C23_ReadWriteAgreement ==
  (pc = "backup" /\ ~rerun) =>
    \A k \in 1..Len(DEDUPE_FIELDS) :
      LET f == DEDUPE_FIELDS[k]
          col == _find_header_col(ws, f)
      IN  col # 0 => \A l \in WrittenUnder(f) : resolved_map[l] = col

\* process_excel_file was called by the button's handler
CoreCalled == \E k \in 1..Len(calls) : calls[k] = "process_excel_file"
BothFilesValid ==
  master_path # "" /\ MasterIsFile /\ month_report_path # "" /\ MonthIsFile

\* C24: GUI ordering. In 'Ingest + Core' process_excel_file is called only
\* after the ingestion was called and has returned a result, never when a
\* file is not selected or missing or when the ingestion raised; 'Run Core
\* Only' calls process_excel_file without any ingestion and needs only
\* a valid MASTER.
C24_IngestThenCore ==
  /\ (button = "ingest_core" /\ CoreCalled) =>
        /\ calls = <<"ingest_month_into_apr_bundle", "process_excel_file">>
        /\ pc = "done" /\ error = "" /\ DOMAIN result # {}
        /\ BothFilesValid
  /\ (button = "ingest_core" /\ (~BothFilesValid \/ pc = "raised")) => ~CoreCalled
  /\ button = "core_only" =>
        /\ pc = "idle" /\ backups = <<>> /\ master = master0
        /\ calls = IF master_path # "" /\ MasterIsFile THEN <<"process_excel_file">> ELSE <<>>

\* 'Ingest + Core' ran the core after an ingestion that appended rows
C24_Witness ==
  /\ button = "ingest_core"
  /\ calls = <<"ingest_month_into_apr_bundle", "process_excel_file">>
  /\ result.rows_added > 0

\* the lines of the log box
Logged(line) == \E k \in 1..Len(log) : log[k] = line

\* C25: the GUI logs what the ingestion returns. After a successful
\* ingestion in 'Ingest + Core' the 'Rows appended' line of the log carries
\* the rows_added value of the summary returned.
C25_RowsAppendedLogged ==
  (button = "ingest_core" /\ CoreCalled) =>
    Logged("  Rows appended: " \o IntToStr(result.rows_added))

====
